---- MODULE Spec2Model ----
(***************************************************************************)
(* Model of the loggerparser services:                                     *)
(*   services/ftpuploader.py    - the remote-sync tool                     *)
(*   services/cr10xformatter.py - the mixed-array formatter                *)
(* Each tool keeps a line-number checkpoint per configured key in its own  *)
(* configuration file; a behaviour follows one of the two tools through a  *)
(* bounded number of invocations while the source files grow.              *)
(***************************************************************************)
EXTENDS Integers, Sequences, FiniteSets, TLC

(* ------------------------------ bounds --------------------------------- *)
\* total number of rows the environment appends to source files
MaxAppends == 2
\* number of invocations of the tool in one behaviour
MaxRuns == 2

(* --------------------------- generic helpers --------------------------- *)
None == "None"

Range(s) == {s[i] : i \in 1..Len(s)}

RECURSIVE Flatten(_)
Flatten(ss) == IF ss = <<>> THEN <<>> ELSE Head(ss) \o Flatten(Tail(ss))

SeqMap(Op(_), s) == [i \in 1..Len(s) |-> Op(s[i])]

RECURSIVE SumOver(_, _)
SumOver(f, S) ==
    IF S = {} THEN 0
    ELSE LET x == CHOOSE y \in S : TRUE IN f[x] + SumOver(f, S \ {x})

(* ======================================================================= *)
(*                        services/ftpuploader.py                          *)
(* ======================================================================= *)

(* The configuration tree cfg['sites'] of cfg/ftpuploader.yaml, in the     *)
(* order the mappings are iterated.                                        *)
FtpSiteOrder == <<"s1", "s2">>
FtpLocationOrder(site) ==
    IF site = "s1" THEN <<"l1">> ELSE IF site = "s2" THEN <<"l2">> ELSE <<>>
FtpFileOrder(site, location) ==
    IF <<site, location>> = <<"s1", "l1">> THEN <<"f1", "f2">>
    ELSE IF <<site, location>> = <<"s2", "l2">> THEN <<"f3">>
    ELSE <<>>

FtpSites == Range(FtpSiteOrder)
FtpLocations(site) == Range(FtpLocationOrder(site))
FtpFiles(site, location) == Range(FtpFileOrder(site, location))

\* the keys cfg['sites'][site]['locations'][location]['files'][file]
FtpKeys ==
    {k \in {<<s, l, f>> : s \in FtpSites, l \in {"l1", "l2"},
                          f \in {"f1", "f2", "f3"}} :
        /\ k[2] \in FtpLocations(k[1])
        /\ k[3] \in FtpFiles(k[1], k[2])}

\* file_info.get('name', file) + file_ext, transfer_rows line 77
file_name(file) ==
    CASE file = "f1" -> "f1.dat"
      [] file = "f2" -> "f2.dat"
      [] OTHER -> "f3.dat"

\* command-line values of --site, --location, --file (None when not given)
ArgSites == {None, "s1"}
ArgLocations == {None, "l1", "l2"}
ArgFiles == {None, "f1"}
FtpArgs == [site : ArgSites, location : ArgLocations, file : ArgFiles]
NoArgs == [site |-> None, location |-> None, file |-> None]

VARIABLES
    tool,       \* which of the two programs this behaviour follows
    runs,       \* invocations started so far
    appends,    \* rows appended to source files so far
    lib_appends,\* cr.export_to_csv appends to an existing file (TRUE) or replaces it
    active,     \* settings.active as the last invocation that loaded the file found it
    \* ---- ftpuploader ----
    udisk,      \* cfg/ftpuploader.yaml: persisted line_num per file key
    ucfg,       \* app_cfg in memory: line_num per file key
    usrc,       \* number of data rows in each source file
    ustage,     \* local staging file output_dir/site/location/file_name
    rdirs,      \* directories on the remote server (absolute paths)
    rfiles,     \* files on the remote server: path -> lines
    cwd,        \* remote working directory of the session
    sess,       \* module-level ftplib session: "none", "open", "quit"
    uphase,     \* "idle", "run", "raised", "done"
    uargs,      \* args of the invocation
    uip,        \* position in the traversal of process_sites
    udirs,      \* root_dir, site_dir, location_dir
    usaved,     \* save_config calls of the invocation
    usnap,      \* udisk when the invocation began
    uexit,      \* how the last invocation ended
    ulog,       \* what the last transfer_rows call did
    \* ---- cr10xformatter ----
    fdisk,      \* cfg/cr10xformatter.yaml: persisted line_num per location key
    fcfg,       \* app_cfg in memory: line_num per location key
    fsrc,       \* the rows of each location's mixed-array source file
    fout,       \* per location and array: the export file and the mismatch file
    fphase,     \* "idle", "run", "raised", "done"
    fargs,      \* args of the invocation
    fip,        \* position in the traversal of process_sites
    fsaved,     \* save_config calls of the invocation
    fsnap,      \* fdisk when the invocation began
    fexit,      \* how the last invocation ended
    flog,       \* what the last process_location call did
    freads,     \* per location: what the invocation's read returned
    frec,       \* summary of the last finished invocation, while the source
                \* files are as that invocation saw them
    \* ---- single calls ----
    arr,        \* one call of process_array_ids on row contents
    cdt         \* one remote tree and the cd_tree calls made on it

ftpvars == <<udisk, ucfg, usrc, ustage, rdirs, rfiles, cwd, sess, uphase, uargs,
             uip, udirs, usaved, usnap, uexit, ulog>>

fmtvars == <<fdisk, fcfg, fsrc, fout, fphase, fargs, fip, fsaved, fsnap, fexit,
             flog, freads, frec>>

callvars == <<arr, cdt>>

vars == <<tool, runs, appends, lib_appends, callvars, ftpvars, fmtvars, callvars>>

(* ------------------------- remote server model ------------------------- *)
Root == <<>>

IsPrefix(p, q) == Len(p) <= Len(q) /\ SubSeq(q, 1, Len(p)) = p

\* session.nlst(): names in the working directory
nlst(files, dirs, wd) ==
    {p[Len(p)] : p \in {q \in (DOMAIN files) \cup dirs :
                           Len(q) = Len(wd) + 1 /\ IsPrefix(wd, q)}}

Put(files, p, lines) ==
    [q \in (DOMAIN files) \cup {p} |-> IF q = p THEN lines ELSE files[q]]

\* session.storbinary('STOR ' + file_name, f): create or replace
STOR(files, wd, name, lines) == Put(files, wd \o <<name>>, lines)

\* session.storbinary('APPE ' + file_name, f): append, creating when absent
APPE(files, wd, name, lines) ==
    LET p == wd \o <<name>> IN
    Put(files, p, (IF p \in DOMAIN files THEN files[p] ELSE <<>>) \o lines)

(* a path string: abs is TRUE for "/a/b", FALSE for "a/b"; "" is the empty  *)
(* relative path                                                            *)
PathStr(abs, segs) == [abs |-> abs, segs |-> segs]
EmptyStr == PathStr(FALSE, <<>>)

\* "/".join(current_dir.split("/")[:-1]), cd_tree line 49
ParentStr(d) ==
    IF Len(d.segs) <= 1 THEN EmptyStr
    ELSE PathStr(d.abs, SubSeq(d.segs, 1, Len(d.segs) - 1))

Resolve(d, wd) == IF d.abs THEN d.segs ELSE wd \o d.segs

\* cd_tree, lines 44-51, on st = [dirs, cwd, raised, mkds]; canMkd: the
\* server permits MKD
RECURSIVE cd_tree(_, _, _)
cd_tree(current_dir, st, canMkd) ==
    IF current_dir = EmptyStr \/ st.raised THEN st
    ELSE IF Resolve(current_dir, st.cwd) \in st.dirs
         THEN [st EXCEPT !.cwd = Resolve(current_dir, st.cwd)]
         ELSE LET s1 == cd_tree(ParentStr(current_dir), st, canMkd)
                  t  == Resolve(current_dir, s1.cwd)
              IN IF s1.raised THEN s1
                 ELSE IF \/ ~canMkd
                         \/ t \in s1.dirs
                         \/ t = Root
                         \/ SubSeq(t, 1, Len(t) - 1) \notin s1.dirs
                      THEN [s1 EXCEPT !.raised = TRUE]
                      ELSE [dirs |-> s1.dirs \cup {t}, cwd |-> t,
                            raised |-> FALSE, mkds |-> s1.mkds + 1]

(* ----------------------- process_sites traversal ----------------------- *)
(* The try block of process_sites (lines 139-224) as the sequence of calls  *)
(* it makes for the given args.                                             *)
FtpOp(o, a) == [op |-> o, arg |-> a]

FilesProg_NoReturn(site, location) ==
    Flatten([i \in 1..Len(FtpFileOrder(site, location)) |->
        <<FtpOp("cd_rel", <<FtpFileOrder(site, location)[i]>>),
          FtpOp("xfer", <<site, location, FtpFileOrder(site, location)[i]>>)>>])

\* for file, file_info in files.items(): lines 176-185, 193-202, 215-224
FilesProg(site, location) ==
    Flatten([i \in 1..Len(FtpFileOrder(site, location)) |->
        <<FtpOp("cd_var", <<"location_dir">>),
          FtpOp("cd_rel", <<FtpFileOrder(site, location)[i]>>),
          FtpOp("xfer", <<site, location, FtpFileOrder(site, location)[i]>>)>>])

\* for location, location_info in locations.items(): lines 188-202, 210-224
LocationsProg(site) ==
    Flatten([i \in 1..Len(FtpLocationOrder(site)) |->
        <<FtpOp("cd_var", <<"site_dir">>),
          FtpOp("cd_rel", <<FtpLocationOrder(site)[i]>>),
          FtpOp("pwd", <<"location_dir">>)>>
        \o FilesProg(site, FtpLocationOrder(site)[i])])

\* for site, site_info in sites.items(): lines 205-224
SitesProg ==
    Flatten([i \in 1..Len(FtpSiteOrder) |->
        <<FtpOp("cd_var", <<"root_dir">>),
          FtpOp("cd_rel", <<FtpSiteOrder[i]>>),
          FtpOp("pwd", <<"site_dir">>)>>
        \o LocationsProg(FtpSiteOrder[i])])

KeyError == <<FtpOp("KeyError", <<>>)>>

\* lines 140-224
ftp_process_sites(args) ==
    IF args.site # None
    THEN IF args.site \notin FtpSites THEN KeyError
         ELSE <<FtpOp("cd_rel", <<args.site>>), FtpOp("pwd", <<"site_dir">>)>> \o
              (IF args.location # None
               THEN IF args.location \notin FtpLocations(args.site) THEN KeyError
                    ELSE <<FtpOp("cd_rel", <<args.location>>),
                           FtpOp("pwd", <<"location_dir">>)>> \o
                         (IF args.file # None
                          THEN IF args.file \notin FtpFiles(args.site, args.location)
                               THEN KeyError
                               ELSE <<FtpOp("cd_rel", <<args.file>>),
                                      FtpOp("xfer", <<args.site, args.location,
                                                       args.file>>)>>
                          ELSE FilesProg(args.site, args.location))
               ELSE LocationsProg(args.site))
    ELSE SitesProg

\* parser.error in setup_parser, lines 255-260
UsageError(args) ==
    IF args.file # None
    THEN args.location = None /\ args.site = None
    ELSE args.location # None /\ args.site = None

(* ---------------------------- transfer_rows ----------------------------- *)
\* cr.read_table_data(first_line_num=line_num): the rows after line_num,
\* each row named by its line number
read_table_data(src, line_num) ==
    IF src > line_num THEN [i \in 1..(src - line_num) |-> line_num + i] ELSE <<>>

Header == 0

\* cr.export_to_csv(data, outfile_path, export_header)
export_to_csv(old, data, export_header) ==
    (IF lib_appends THEN old ELSE <<>>)
    \o (IF export_header THEN <<Header>> ELSE <<>>) \o data

NoNewRows_Never(num_of_new_rows) == FALSE

\* line 74
NoNewRows(num_of_new_rows) == num_of_new_rows = 0

CreateSelected_Flipped(name, listing) == name \in listing

\* line 83: file_name not in session.nlst()
CreateSelected(name, listing) == name \notin listing

NewLineNum_OffByOne(line_num, num_of_new_rows) == line_num + num_of_new_rows + 1

NewLineNum_SignSlip(line_num, num_of_new_rows) == line_num - num_of_new_rows

\* line 102: new_line_num
NewLineNum(line_num, num_of_new_rows) == line_num + num_of_new_rows

set_line_num_WholeLocation(cfg, k, value) ==
    [q \in DOMAIN cfg |-> IF q[1] = k[1] /\ q[2] = k[2] THEN value ELSE cfg[q]]

\* lines 103-104: cfg['sites'][site]['locations'][location]['files'][file]
\*                ['line_num'] = new_line_num
set_line_num(cfg, k, value) == [cfg EXCEPT ![k] = value]

\* the statement of transfer_rows at which an exception is raised
FailPoints == {"none", "read", "nlst", "export", "stor_lost", "stor_sent", "remove"}

\* file_info.get('line_num') of a file entry without the key, line 57
NoLineNum == -1

\* cr.read_table_data(first_line_num=None) read as "from the first line"
first_line_num(line_num) == IF line_num = NoLineNum THEN 0 ELSE line_num

TransferOrder_AdvanceBeforeRemove ==
    <<"nlst", "export", "storbinary", "line_num", "remove">>

\* the statements of lines 83-104 in the order they are executed: the
\* listing, the staging write, the STOR or APPE, os.remove, the assignment
\* of the new line_num
TransferOrder == <<"nlst", "export", "storbinary", "remove", "line_num">>

\* the statement at which each failure is raised
FailStatement(fail) ==
    CASE fail = "read" -> "read_table_data"
      [] fail = "nlst" -> "nlst"
      [] fail = "export" -> "export"
      [] fail \in {"stor_lost", "stor_sent"} -> "storbinary"
      [] fail = "remove" -> "remove"
      [] OTHER -> "none"

NoLog == [key |-> <<>>, old |-> 0, n |-> 0, ok |-> FALSE, present |-> FALSE,
          cmds |-> <<>>, exports |-> <<>>, wd |-> Root, steps |-> <<>>]

\* one statement of lines 83-104 on st = [raised, cfg, stage, files, log,
\* create]; steps lists the statements that have completed
transfer_statement(stmt, k, fail, data, st) ==
    LET name   == file_name(k[3])
        raise  == [st EXCEPT !.raised = TRUE]
        done   == [st EXCEPT !.log.steps = Append(@, stmt)]
        cmd    == IF st.create THEN "STOR" ELSE "APPE"
        sent   == IF st.create THEN STOR(st.files, cwd, name, st.stage[k])
                  ELSE APPE(st.files, cwd, name, st.stage[k])
    IN CASE stmt = "nlst" ->
              LET listed == [st EXCEPT !.log.cmds = Append(@, "NLST")]
              IN IF fail = "nlst" THEN [listed EXCEPT !.raised = TRUE]
                 ELSE [listed EXCEPT
                         !.create = CreateSelected(name, nlst(st.files, rdirs, cwd)),
                         !.log.steps = Append(@, stmt)]
         [] stmt = "export" ->
              IF fail = "export" THEN raise
              ELSE [done EXCEPT
                      !.stage[k] = export_to_csv(st.stage[k], data, st.create),
                      !.log.exports = Append(@, st.create)]
         [] stmt = "storbinary" ->
              IF fail = "stor_lost" THEN [raise EXCEPT !.log.cmds = Append(@, cmd)]
              ELSE IF fail = "stor_sent"
                   THEN [raise EXCEPT !.log.cmds = Append(@, cmd), !.files = sent]
              ELSE [done EXCEPT !.log.cmds = Append(@, cmd), !.files = sent]
         [] stmt = "remove" ->
              IF fail = "remove" THEN raise
              ELSE [done EXCEPT !.stage[k] = <<>>]
         [] OTHER ->
              \* line 102: None + num_of_new_rows raises TypeError
              IF st.log.old = NoLineNum THEN raise
              ELSE [done EXCEPT
                      !.cfg = set_line_num(st.cfg, k,
                                           NewLineNum(st.log.old, st.log.n))]

RECURSIVE transfer_statements(_, _, _, _, _, _)
transfer_statements(order, i, k, fail, data, st) ==
    IF i > Len(order) \/ st.raised THEN st
    ELSE transfer_statements(order, i + 1, k, fail, data,
                             transfer_statement(order[i], k, fail, data, st))

\* transfer_rows, lines 54-104, raising at 'fail'
transfer_rows(k, fail) ==
    LET line_num == ucfg[k]
        data     == read_table_data(usrc[k], first_line_num(line_num))
        n        == Len(data)
        log      == [key |-> k, old |-> line_num, n |-> n, ok |-> FALSE,
                     present |-> (cwd \o <<file_name(k[3])>>) \in DOMAIN rfiles,
                     cmds |-> <<>>, exports |-> <<>>, wd |-> cwd,
                     steps |-> <<>>]
        base     == [raised |-> FALSE, cfg |-> ucfg, stage |-> ustage,
                     files |-> rfiles, log |-> log, create |-> FALSE]
        r        == IF fail = "read" THEN [base EXCEPT !.raised = TRUE]
                    ELSE IF NoNewRows(n) THEN base
                    ELSE transfer_statements(TransferOrder, 1, k, fail, data, base)
    IN [raised |-> r.raised, cfg |-> r.cfg, stage |-> r.stage,
        files |-> r.files, log |-> [r.log EXCEPT !.ok = ~r.raised]]

(* --------------------------- ftpuploader run ---------------------------- *)
\* utils.load_config / utils.save_config on the line_num entries
load_config(disk) == disk
save_config(cfg) == cfg

SaveConfigReached_Always(raised) == TRUE

\* try/except/else at lines 139, 225-228: the else clause runs save_config
SaveConfigReached(raised) == ~raised

FtpProgram == ftp_process_sites(uargs)
FtpCurrent == FtpProgram[uip]
FtpAt(o) == uphase = "run" /\ uip <= Len(FtpProgram) /\ FtpCurrent.op = o

Proceeds_Always(system_is_active) == TRUE

\* ftpuploader lines 264-267, cr10xformatter lines 526-529
Proceeds(system_is_active) == system_is_active

FtpCanBegin == tool = "ftp" /\ uphase \in {"idle", "done"} /\ runs < MaxRuns

\* module import (lines 36-41) then parser.error (lines 255-260)
FtpUsageError ==
    /\ FtpCanBegin
    /\ \E args \in FtpArgs : UsageError(args)
    /\ uargs' = NoArgs
    /\ runs' = runs + 1 /\ UNCHANGED <<tool, active, lib_appends, callvars, fmtvars, appends>>
    /\ sess' = "open" /\ cwd' = Root
    /\ uphase' = "done" /\ uexit' = "usage"
    /\ usaved' = 0 /\ usnap' = udisk /\ ulog' = NoLog /\ uip' = 0
    /\ UNCHANGED <<udisk, ucfg, usrc, ustage, rdirs, rfiles, udirs>>

\* module import then the inactive return of setup_parser (lines 262-267)
FtpInactive ==
    /\ FtpCanBegin
    /\ \E system_is_active \in BOOLEAN :
        /\ ~Proceeds(system_is_active)
        /\ active' = system_is_active
    /\ \E args \in FtpArgs : ~UsageError(args)
    /\ uargs' = NoArgs
    /\ runs' = runs + 1 /\ UNCHANGED <<tool, lib_appends, callvars, fmtvars, appends>>
    /\ sess' = "open" /\ cwd' = Root
    /\ ucfg' = load_config(udisk)
    /\ uphase' = "done" /\ uexit' = "inactive"
    /\ usaved' = 0 /\ usnap' = udisk /\ ulog' = NoLog /\ uip' = 0
    /\ UNCHANGED <<udisk, usrc, ustage, rdirs, rfiles, udirs>>

\* module import, setup_parser up to process_sites line 137 (root_dir)
FtpStart ==
    /\ FtpCanBegin
    /\ \E system_is_active \in BOOLEAN :
        /\ Proceeds(system_is_active)
        /\ active' = system_is_active
    /\ \E args \in FtpArgs :
        /\ ~UsageError(args)
        /\ uargs' = args
    /\ runs' = runs + 1 /\ UNCHANGED <<tool, lib_appends, callvars, fmtvars, appends>>
    /\ sess' = "open" /\ cwd' = Root
    /\ ucfg' = load_config(udisk)
    /\ udirs' = [v \in {"root_dir", "site_dir", "location_dir"} |-> Root]
    /\ uphase' = "run" /\ uip' = 1 /\ uexit' = "none"
    /\ usaved' = 0 /\ usnap' = udisk /\ ulog' = NoLog
    /\ UNCHANGED <<udisk, usrc, ustage, rdirs, rfiles>>

\* sites[args.site], locations[args.location], files[args.file] on a
\* name that is not configured (lines 143, 155, 165)
FtpKeyError ==
    /\ FtpAt("KeyError")
    /\ uphase' = "raised"
    /\ UNCHANGED <<tool, active, lib_appends, callvars, fmtvars, appends, runs, udisk, ucfg, usrc, ustage, rdirs, rfiles, cwd, sess,
                   uargs, uip, udirs, usaved, usnap, uexit, ulog>>

\* a cd_tree call of process_sites
FtpCdTree ==
    /\ FtpAt("cd_rel") \/ FtpAt("cd_var")
    /\ \E canMkd \in BOOLEAN, lost \in BOOLEAN :
        LET d  == IF FtpCurrent.op = "cd_rel"
                  THEN PathStr(FALSE, FtpCurrent.arg)
                  ELSE PathStr(TRUE, udirs[FtpCurrent.arg[1]])
            st == cd_tree(d, [dirs |-> rdirs, cwd |-> cwd, raised |-> FALSE,
                              mkds |-> 0], canMkd)
        IN IF lost
           THEN /\ uphase' = "raised"
                /\ UNCHANGED <<rdirs, cwd, uip>>
           ELSE /\ rdirs' = st.dirs
                /\ cwd' = st.cwd
                /\ IF st.raised
                   THEN uphase' = "raised" /\ uip' = uip
                   ELSE uphase' = uphase /\ uip' = uip + 1
    /\ UNCHANGED <<tool, active, lib_appends, callvars, fmtvars, appends, runs, udisk, ucfg, usrc, ustage, rfiles, sess, uargs, udirs,
                   usaved, usnap, uexit, ulog>>

\* site_dir = session.pwd(), location_dir = session.pwd()
FtpPwd ==
    /\ FtpAt("pwd")
    /\ udirs' = [udirs EXCEPT ![FtpCurrent.arg[1]] = cwd]
    /\ uip' = uip + 1
    /\ UNCHANGED <<tool, active, lib_appends, callvars, fmtvars, appends, runs, udisk, ucfg, usrc, ustage, rdirs, rfiles, cwd, sess,
                   uphase, uargs, usaved, usnap, uexit, ulog>>

\* a transfer_rows call of process_sites
FtpTransferRows ==
    /\ FtpAt("xfer")
    /\ \E fail \in FailPoints :
        LET r == transfer_rows(FtpCurrent.arg, fail) IN
        /\ ucfg' = r.cfg
        /\ ustage' = r.stage
        /\ rfiles' = r.files
        /\ ulog' = r.log
        /\ IF r.raised
           THEN uphase' = "raised" /\ uip' = uip
           ELSE uphase' = uphase /\ uip' = uip + 1
    /\ UNCHANGED <<tool, active, lib_appends, callvars, fmtvars, appends, runs, udisk, usrc, rdirs, cwd, sess, uargs, udirs, usaved,
                   usnap, uexit>>

\* except / else / finally of process_sites, lines 225-230
FtpFinish ==
    /\ \/ uphase = "raised"
       \/ uphase = "run" /\ uip > Len(FtpProgram)
    /\ IF SaveConfigReached(uphase = "raised")
       THEN udisk' = save_config(ucfg) /\ usaved' = usaved + 1
       ELSE UNCHANGED <<udisk, usaved>>
    /\ sess' = "quit"
    /\ uexit' = IF uphase = "raised" THEN "exception" ELSE "ok"
    /\ uphase' = "done"
    /\ uargs' = NoArgs /\ uip' = 0 /\ ulog' = NoLog
    /\ cwd' = Root /\ udirs' = [v \in DOMAIN udirs |-> Root]
    /\ UNCHANGED <<tool, active, lib_appends, callvars, fmtvars, appends, runs, ucfg, usrc, ustage, rdirs, rfiles, usnap>>

(* The datalogger appends a row to a source file.  A file is read once per  *)
(* invocation, in one call, so a row arriving during an invocation is seen  *)
(* either as arriving before it or after it.                                *)
FtpSrcAppend ==
    /\ tool = "ftp" /\ uphase \in {"idle", "done"}
    /\ appends < MaxAppends
    /\ appends' = appends + 1
    /\ \E k \in FtpKeys : usrc' = [usrc EXCEPT ![k] = usrc[k] + 1]
    /\ UNCHANGED <<tool, active, lib_appends, callvars, fmtvars, runs, udisk, ucfg, ustage, rdirs, rfiles, cwd, sess, uphase,
                   uargs, uip, udirs, usaved, usnap, uexit, ulog>>

\* the state before the first invocation, with the line_num entries of
\* cfg/ftpuploader.yaml as given
FtpInitAt(line_nums) ==
    /\ udisk = line_nums
    /\ ucfg = line_nums
    /\ usrc = [k \in FtpKeys |-> 0]
    /\ ustage = [k \in FtpKeys |-> <<>>]
    /\ rdirs = {Root}
    /\ rfiles = [p \in {} |-> <<>>]
    /\ cwd = Root
    /\ sess = "none"
    /\ uphase = "idle"
    /\ uargs = NoArgs
    /\ uip = 0
    /\ udirs = [v \in {"root_dir", "site_dir", "location_dir"} |-> Root]
    /\ usaved = 0
    /\ usnap = line_nums
    /\ uexit = "none"
    /\ ulog = NoLog

FtpInit == FtpInitAt([k \in FtpKeys |-> 0])

(* ======================================================================= *)
(*                       services/cr10xformatter.py                        *)
(* ======================================================================= *)

(* cfg['sites'] of cfg/cr10xformatter.yaml, in iteration order             *)
FmtSiteOrder == <<"s1", "s2">>
FmtLocationOrder(site) ==
    IF site = "s1" THEN <<"l1">> ELSE IF site = "s2" THEN <<"l2">> ELSE <<>>
FmtSites == Range(FmtSiteOrder)
FmtLocations(site) == Range(FmtLocationOrder(site))
FmtKeys == {k \in {<<s, l>> : s \in FmtSites, l \in {"l1", "l2"}} :
               k[2] \in FmtLocations(k[1])}

\* location_info['array_ids'], in iteration order (array names)
ArrayOrder == <<"a1", "a2">>
Arrays == Range(ArrayOrder)

\* a source line: its array id and whether its field count equals the
\* number of column names configured for that array
RowKinds == {[aid |-> "a1", ok |-> TRUE], [aid |-> "a1", ok |-> FALSE],
             [aid |-> "a2", ok |-> TRUE]}

FmtArgSites == {None, "s1"}
FmtArgLocations == {None, "l1", "l2"}
FmtArgs == [site : FmtArgSites, location : FmtArgLocations, track : BOOLEAN]
NoFmtArgs == [site |-> None, location |-> None, track |-> FALSE]

\* parser.error in main, lines 521-522
FmtUsageError(args) == args.location # None /\ args.site = None

\* process_sites lines 458-489: the locations handed to process_location
fmt_process_sites(args) ==
    IF args.site # None
    THEN IF args.site \notin FmtSites THEN <<"KeyError">>
         ELSE IF args.location # None
              THEN IF args.location \notin FmtLocations(args.site)
                   THEN <<"KeyError">>
                   ELSE <<args.location>>
              ELSE FmtLocationOrder(args.site)
    ELSE Flatten([i \in 1..Len(FmtSiteOrder) |-> FmtLocationOrder(FmtSiteOrder[i])])

\* the site of a configured location
SiteOf(location) == CHOOSE s \in FmtSites : location \in FmtLocations(s)

\* cr.read_array_ids_data(first_line_num=line_num): the lines after line_num
\* split by array name, each line named by its line number
read_array_ids_data(src, line_num) ==
    [a \in Arrays |->
        SelectSeq([i \in 1..Len(src) |-> i],
                  LAMBDA i : i > line_num /\ src[i].aid = a)]

\* lines 390-393
num_of_new_rows(data) == SumOver([a \in DOMAIN data |-> Len(data[a])], DOMAIN data)

\* line 396
NoWorkToBeDone(n) == n = 0

\* the parameters of process_array_ids, lines 203-204
process_array_ids_params ==
    {"site", "location", "data", "time_zone", "time_format_args_library",
     "output_dir", "array_ids_info", "file_ext"}

\* the keywords of the call in process_location, lines 403-412
process_array_ids_keywords ==
    {"site", "location", "array_ids_data", "time_zone",
     "time_format_args_library", "output_dir", "array_ids_info", "file_ext"}

CallBinds_AnyKeyword(keywords, params) == TRUE

\* Python binds a keyword call only when every keyword names a parameter
\* and every parameter without default is given; otherwise TypeError
CallBinds(keywords, params) == keywords \subseteq params /\ params \subseteq keywords

\* cr.update_column_names(match_row_lengths=True,
\*                        get_mismatched_row_lengths=True), lines 292-296
update_column_names(src, rows) ==
    [named |-> SelectSeq(rows, LAMBDA i : src[i].ok),
     mismatches |-> SelectSeq(rows, LAMBDA i : ~src[i].ok)]

NoFile == [main |-> <<>>, mism |-> <<>>]

\* process_array_ids lines 235-331 from array j on; failAt names the array
\* whose conversion or time parsing raises (0: none)
RECURSIVE process_array_ids(_, _, _, _, _)
process_array_ids(src, data, out, failAt, j) ==
    IF j > Len(ArrayOrder) THEN [raised |-> FALSE, out |-> out]
    ELSE LET a == ArrayOrder[j]
             r == update_column_names(src, data[a])
             main == export_to_csv(out[a].main, r.named, TRUE)
             mism == IF r.mismatches # <<>>
                     THEN export_to_csv(out[a].mism, r.mismatches, FALSE)
                     ELSE out[a].mism
         IN IF data[a] = <<>>
            THEN process_array_ids(src, data, out, failAt, j + 1)
            ELSE IF failAt = j THEN [raised |-> TRUE, out |-> out]
            ELSE process_array_ids(src, data,
                     [out EXCEPT ![a] = [main |-> main, mism |-> mism]],
                     failAt, j + 1)

\* lines 414-415
TrackAdvance(track, n) == track /\ n > 0

\* line 416
fmt_new_line_num(line_num, n) == line_num + n

checkpoint_after_AtLoad(cfg, k, track, line_num, n, returned) ==
    IF TrackAdvance(track, n)
    THEN [cfg EXCEPT ![k] = fmt_new_line_num(line_num, n)]
    ELSE cfg

\* lines 414-418, which follow the process_array_ids call of lines 403-412:
\* the assignment runs only when that call returned
checkpoint_after(cfg, k, track, line_num, n, returned) ==
    IF returned /\ TrackAdvance(track, n)
    THEN [cfg EXCEPT ![k] = fmt_new_line_num(line_num, n)]
    ELSE cfg

NoFmtLog == [key |-> <<>>, old |-> 0, n |-> 0, track |-> FALSE, readOk |-> FALSE,
             called |-> FALSE, raised |-> FALSE]

\* location_info.get('line_num', 0), line 368
get_line_num(line_num) == IF line_num = NoLineNum THEN 0 ELSE line_num

\* process_location, lines 334-423; failRead: the read raises; failAt: see
\* process_array_ids
process_location(k, track, failRead, failAt) ==
    LET line_num == get_line_num(fcfg[k])
        data == read_array_ids_data(fsrc[k], line_num)
        n    == num_of_new_rows(data)
        log  == [key |-> k, old |-> line_num, n |-> 0, track |-> track,
                 readOk |-> FALSE, called |-> FALSE, raised |-> TRUE]
        base == [raised |-> TRUE, cfg |-> fcfg, out |-> fout, log |-> log]
        r    == process_array_ids(fsrc[k], data, fout[k], failAt, 1)
    IN IF failRead THEN base
       ELSE IF NoWorkToBeDone(n)
            THEN [base EXCEPT !.raised = FALSE, !.log.readOk = TRUE,
                              !.log.raised = FALSE]
       ELSE IF ~CallBinds(process_array_ids_keywords, process_array_ids_params)
            THEN [base EXCEPT !.log.readOk = TRUE, !.log.n = n,
                              !.cfg = checkpoint_after(fcfg, k, track, line_num,
                                                       n, FALSE)]
       ELSE IF r.raised
            THEN [base EXCEPT !.log.readOk = TRUE, !.log.n = n,
                              !.log.called = TRUE,
                              !.out = [fout EXCEPT ![k] = r.out],
                              !.cfg = checkpoint_after(fcfg, k, track, line_num,
                                                       n, FALSE)]
       ELSE [raised |-> FALSE,
             cfg |-> checkpoint_after(fcfg, k, track, line_num, n, TRUE),
             out |-> [fout EXCEPT ![k] = r.out],
             log |-> [log EXCEPT !.readOk = TRUE, !.n = n, !.called = TRUE,
                                 !.raised = FALSE]]

(* -------------------------- cr10xformatter run -------------------------- *)
SaveRequested_Always(track) == TRUE

\* line 491: if args.track
SaveRequested(track) == track

FmtSaveReached_Always(raised) == TRUE

\* process_sites, lines 458-493, has no handler: an exception of a
\* process_location call leaves the function before line 491
FmtSaveReached(raised) == ~raised

NoRead == [read |-> FALSE, from |-> 0, upto |-> 0]
NoReads == [k \in FmtKeys |-> NoRead]
NoRec == [valid |-> FALSE, args |-> NoFmtArgs, reads |-> NoReads, out |-> <<>>]

FmtProgram == fmt_process_sites(fargs)
FmtAtLocation ==
    fphase = "run" /\ fip <= Len(FmtProgram) /\ FmtProgram[fip] # "KeyError"

FmtCanBegin == tool = "fmt" /\ fphase \in {"idle", "done"} /\ runs < MaxRuns

\* main, lines 514-522: parser.error
FmtUsage ==
    /\ FmtCanBegin
    /\ \E args \in FmtArgs : FmtUsageError(args)
    /\ runs' = runs + 1
    /\ fphase' = "done" /\ fexit' = "usage"
    /\ flog' = NoFmtLog /\ freads' = NoReads /\ fsaved' = 0 /\ fsnap' = fdisk
    /\ UNCHANGED <<tool, active, appends, lib_appends, callvars, ftpvars, fdisk, fcfg, fsrc, fout,
                   fargs, fip, frec>>

\* main, lines 524-529: the system is not active
FmtInactive ==
    /\ FmtCanBegin
    /\ \E system_is_active \in BOOLEAN :
        /\ ~Proceeds(system_is_active)
        /\ active' = system_is_active
    /\ \E args \in FmtArgs : ~FmtUsageError(args)
    /\ runs' = runs + 1
    /\ fcfg' = load_config(fdisk)
    /\ fphase' = "done" /\ fexit' = "inactive"
    /\ flog' = NoFmtLog /\ freads' = NoReads /\ fsaved' = 0 /\ fsnap' = fdisk
    /\ UNCHANGED <<tool, appends, lib_appends, callvars, ftpvars, fdisk, fsrc, fout, fargs,
                   fip, frec>>

\* main, lines 514-535, up to the traversal of process_sites
FmtStart ==
    /\ FmtCanBegin
    /\ \E system_is_active \in BOOLEAN :
        /\ Proceeds(system_is_active)
        /\ active' = system_is_active
    /\ \E args \in FmtArgs :
        /\ ~FmtUsageError(args)
        /\ fargs' = args
    /\ runs' = runs + 1
    /\ fcfg' = load_config(fdisk)
    /\ fphase' = "run" /\ fip' = 1 /\ fexit' = "none"
    /\ flog' = NoFmtLog /\ freads' = NoReads /\ fsaved' = 0 /\ fsnap' = fdisk
    /\ UNCHANGED <<tool, appends, lib_appends, callvars, ftpvars, fdisk, fsrc, fout, frec>>

\* sites[args.site] or locations[args.location] on a name that is not
\* configured (lines 460, 468)
FmtKeyError ==
    /\ fphase = "run" /\ fip <= Len(FmtProgram) /\ FmtProgram[fip] = "KeyError"
    /\ fphase' = "raised"
    /\ UNCHANGED <<tool, active, runs, appends, lib_appends, callvars, ftpvars, fdisk, fcfg, fsrc,
                   fout, fargs, fip, fsaved, fsnap, fexit, flog, freads, frec>>

\* a process_location call of process_sites
FmtProcessLocation ==
    /\ FmtAtLocation
    /\ \E failRead \in BOOLEAN, failAt \in 0..Len(ArrayOrder) :
        LET k == <<SiteOf(FmtProgram[fip]), FmtProgram[fip]>>
            r == process_location(k, fargs.track, failRead, failAt)
        IN /\ fcfg' = r.cfg
           /\ fout' = r.out
           /\ flog' = r.log
           /\ freads' = IF r.log.readOk
                        THEN [freads EXCEPT ![k] = [read |-> TRUE, from |-> get_line_num(fcfg[k]),
                                                   upto |-> Len(fsrc[k])]]
                        ELSE freads
           /\ IF r.raised
              THEN fphase' = "raised" /\ fip' = fip
              ELSE fphase' = fphase /\ fip' = fip + 1
    /\ UNCHANGED <<tool, active, runs, appends, lib_appends, callvars, ftpvars, fdisk, fsrc, fargs,
                   fsaved, fsnap, fexit, frec>>

\* the end of process_sites (lines 491-493), or the exception leaving main
FmtFinish ==
    /\ \/ fphase = "raised"
       \/ fphase = "run" /\ fip > Len(FmtProgram)
    /\ IF FmtSaveReached(fphase = "raised") /\ SaveRequested(fargs.track)
       THEN fdisk' = save_config(fcfg) /\ fsaved' = fsaved + 1
       ELSE UNCHANGED <<fdisk, fsaved>>
    /\ fexit' = IF fphase = "raised" THEN "exception" ELSE "ok"
    /\ fphase' = "done"
    /\ frec' = [valid |-> TRUE, args |-> fargs, reads |-> freads, out |-> fout]
    /\ fargs' = NoFmtArgs /\ fip' = 0 /\ freads' = NoReads /\ flog' = NoFmtLog
    /\ UNCHANGED <<tool, active, runs, appends, lib_appends, callvars, ftpvars, fcfg, fsrc, fout,
                   fsnap>>

\* the datalogger appends a line to a location's source file (between
\* invocations: a file is read once per invocation, in one call)
FmtSrcAppend ==
    /\ tool = "fmt" /\ fphase \in {"idle", "done"}
    /\ appends < MaxAppends
    /\ appends' = appends + 1
    /\ \E k \in FmtKeys, row \in RowKinds :
        fsrc' = [fsrc EXCEPT ![k] = Append(fsrc[k], row)]
    /\ frec' = NoRec
    /\ UNCHANGED <<tool, active, runs, lib_appends, callvars, ftpvars, fdisk, fcfg, fout, fphase,
                   fargs, fip, fsaved, fsnap, fexit, flog, freads>>

\* the state before the first invocation, with the line_num entries of
\* cfg/cr10xformatter.yaml as given
FmtInitAt(line_nums) ==
    /\ fdisk = line_nums
    /\ fcfg = line_nums
    /\ fsrc = [k \in FmtKeys |-> <<>>]
    /\ fout = [k \in FmtKeys |-> [a \in Arrays |-> NoFile]]
    /\ fphase = "idle"
    /\ fargs = NoFmtArgs
    /\ fip = 0
    /\ fsaved = 0
    /\ fsnap = line_nums
    /\ fexit = "none"
    /\ flog = NoFmtLog
    /\ freads = NoReads
    /\ frec = NoRec

FmtInit == FmtInitAt([k \in FmtKeys |-> 0])

\* no call of process_array_ids on row contents is followed
NoArr == [info |-> <<>>, data |-> <<>>, j |-> 0, stage |-> "idle",
          named |-> <<>>, mismatches |-> <<>>, before |-> <<>>, table |-> <<>>,
          calls |-> <<>>, out |-> <<>>]

(* ======================================================================= *)
(*            services/ftpuploader.py: cd_tree on any remote tree          *)
(* ======================================================================= *)
\* cd_tree calls made on one remote tree
MaxCalls == 2

\* the directories a remote tree may hold besides the root
CdDirs == {<<"a">>, <<"b">>, <<"a", "a">>, <<"a", "b">>, <<"b", "a">>, <<"b", "b">>}

\* the remote trees: every directory has its parent
CdTrees ==
    {t \cup {Root} : t \in {u \in SUBSET CdDirs :
        \A d \in u : Len(d) > 1 => SubSeq(d, 1, Len(d) - 1) \in u}}

\* the arguments of cd_tree: "", "/", and paths of one or two segments,
\* relative and absolute
CdPaths ==
    {PathStr(abs, segs) : abs \in BOOLEAN, segs \in {<<>>} \cup CdDirs}

NoCd == [dirs |-> {Root}, cwd |-> Root, calls |-> 0, path |-> EmptyStr,
         canMkd |-> FALSE, raised |-> FALSE, mkds |-> 0,
         before |-> [dirs |-> {Root}, cwd |-> Root], repeated |-> FALSE]

\* one call cd_tree(path), lines 44-51
CdCall ==
    /\ cdt.calls < MaxCalls
    /\ \E path \in CdPaths, canMkd \in BOOLEAN :
        LET st == cd_tree(path, [dirs |-> cdt.dirs, cwd |-> cdt.cwd,
                                 raised |-> FALSE, mkds |-> 0], canMkd)
        IN cdt' = [dirs |-> st.dirs, cwd |-> st.cwd, calls |-> cdt.calls + 1,
                   path |-> path, canMkd |-> canMkd, raised |-> st.raised,
                   mkds |-> st.mkds,
                   before |-> [dirs |-> cdt.dirs, cwd |-> cdt.cwd],
                   repeated |-> cdt.calls > 0 /\ cdt.path = path /\ ~cdt.raised]
    /\ UNCHANGED <<tool, active, runs, appends, lib_appends, ftpvars, fmtvars, arr>>

\* a session on any remote tree, in any of its directories
CdInit ==
    /\ tool = "ftp"
    /\ lib_appends = FALSE
    /\ active = TRUE
    /\ runs = 0
    /\ appends = 0
    /\ FtpInit
    /\ FmtInit
    /\ arr = NoArr
    /\ \E dirs \in CdTrees : \E wd \in dirs :
        cdt = [NoCd EXCEPT !.dirs = dirs, !.cwd = wd,
                           !.before = [dirs |-> dirs, cwd |-> wd]]

CdNext == CdCall

SpecCdTree == CdInit /\ [][CdNext]_vars

(* ======================================================================= *)
(*     services/cr10xformatter.py: process_array_ids on row contents       *)
(* ======================================================================= *)
\* number of rows in the chunk handed to one call of process_array_ids
MaxRows == 2

\* array_id_info.get('column_names'), line 246
column_names(a) == IF a = "a1" THEN <<"Id", "Day", "Temp">> ELSE <<"Id", "Hour">>

\* array_id_info.get('time_columns'), line 257
time_columns(a) == IF a = "a1" THEN <<"Day">> ELSE <<"Hour">>

\* array_id_info.get('time_parsed_column_name', 'Timestamp'), line 260
time_parsed_column_name == "Timestamp"

\* array_id_info.get('export_columns'), line 249: the choices for array a1
\* (the second names a column no row has and lists Temp before Id)
ExportChoices == {<<"Timestamp", "Temp">>, <<"Temp", "Wind", "Id">>}

ConversionSpec(column, type, time_cols) ==
    [column |-> column, value_type |-> type, value_time_columns |-> time_cols]

\* array_id_info.get('convert_data_column_values'), line 267, in the order
\* the mapping is iterated: the choices for array a1 and for array a2
ConvertChoices(a) ==
    IF a = "a1"
    THEN {<<>>,
          <<ConversionSpec("Day", "time", <<"Day">>)>>,
          <<ConversionSpec("Day", "time", <<"Day">>),
            ConversionSpec("Temp", "time", <<"Temp">>)>>,
          <<ConversionSpec("Temp", "float", <<>>)>>,
          <<ConversionSpec("Day", "time", <<"Day">>),
            ConversionSpec("Temp", "float", <<>>)>>}
    ELSE {<<>>, <<ConversionSpec("Hour", "float", <<>>)>>}

\* array_ids_info of one location
ArrayIdsInfos ==
    {[a \in Arrays |->
        [column_names |-> column_names(a),
         export_columns |-> IF a = "a1" THEN e ELSE <<"Timestamp", "Id">>,
         time_columns |-> time_columns(a),
         convert_data_column_values |-> IF a = "a1" THEN c1 ELSE c2]] :
      e \in ExportChoices, c1 \in ConvertChoices("a1"), c2 \in ConvertChoices("a2")}

\* the fields of a source line; the first field is the array id.  Rows of
\* array 1 with three fields and rows of array 2 with two fields match
\* their column names, the others are too short or too long.
RawRows == {<<1, 1, 5>>, <<1, 2, 5>>, <<1, 1>>, <<1, 2, 5, 5>>, <<2, 3>>, <<2>>}

array_name(row) == IF row[1] = 1 THEN "a1" ELSE "a2"

RECURSIVE SeqsUpTo(_, _)
SeqsUpTo(S, n) ==
    IF n = 0 THEN {<<>>}
    ELSE LET shorter == SeqsUpTo(S, n - 1)
         IN shorter \cup {Append(s, x) : s \in shorter, x \in S}

\* cr.read_array_ids_data, lines 383-388: the rows split by array id
split_by_array_id(rows) ==
    [a \in Arrays |-> SelectSeq(rows, LAMBDA row : array_name(row) = a)]

(* a named row is the sequence of its (name, value) items in column order *)
Names(row) == [i \in 1..Len(row) |-> row[i][1]]
Values(row) == [i \in 1..Len(row) |-> row[i][2]]
Has(row, name) == \E i \in 1..Len(row) : row[i][1] = name
ValueOf(row, name) == row[CHOOSE i \in 1..Len(row) : row[i][1] = name][2]

cr_update_column_names_DropMismatches(data, names) ==
    [named |-> [i \in 1..Len(data) |->
                   [j \in 1..Len(names) |->
                       <<names[j], IF j <= Len(data[i]) THEN data[i][j] ELSE 0>>]],
     mismatches |-> <<>>]

\* cr.update_column_names(data, column_names, match_row_lengths=True,
\* get_mismatched_row_lengths=True), lines 292-296: the rows as long as the
\* column names get the names, the others are returned apart
cr_update_column_names(data, names) ==
    [named |-> SeqMap(LAMBDA row : [j \in 1..Len(names) |-> <<names[j], row[j]>>],
                      SelectSeq(data, LAMBDA row : Len(row) = Len(names))),
     mismatches |-> SelectSeq(data, LAMBDA row : Len(row) # Len(names))]

\* the time value parsed from the values of the time columns
RECURSIVE parse_time_value(_)
parse_time_value(values) ==
    IF values = <<>> THEN 1
    ELSE 10 * parse_time_value(SubSeq(values, 1, Len(values) - 1))
         + values[Len(values)]

\* cr.parse_time(data, time_parsed_column, time_columns, replace_time_column):
\* the time columns of each row give one parsed column, which takes the
\* place of replace_time_column or, without it, the first place
cr_parse_time(data, time_parsed_column, time_cols, replace_time_column) ==
    SeqMap(LAMBDA row :
        LET parsed == <<time_parsed_column,
                        parse_time_value([i \in 1..Len(time_cols) |->
                                             ValueOf(row, time_cols[i])])>>
        IN IF replace_time_column = None \/ ~Has(row, replace_time_column)
           THEN <<parsed>> \o SelectSeq(row, LAMBDA p : p[1] \notin Range(time_cols))
           ELSE Flatten([i \in 1..Len(row) |->
                    IF row[i][1] = replace_time_column THEN <<parsed>>
                    ELSE IF row[i][1] \in Range(time_cols) THEN <<>>
                    ELSE <<row[i]>>]),
        data)

\* convert_data_time_values, lines 28-63
convert_data_time_values(data, column_name, value_time_columns) ==
    cr_parse_time(data, column_name, value_time_columns, column_name)

\* make_data_set_backup, lines 66-83: a copy, item by item
make_data_set_backup(data) ==
    [i \in 1..Len(data) |->
        [j \in 1..Len(data[i]) |-> <<data[i][j][1], data[i][j][2]>>]]

\* lines 133-136: the Row built for one converted row holds the converted
\* column only
converted_values(row, converted_column_name) ==
    LET found == SelectSeq(row, LAMBDA p : p[1] = converted_column_name)
    IN IF found = <<>> THEN <<>> ELSE <<found[Len(found)]>>

appends_per_row_EveryItem(row, converted_column_name) == Len(row)

\* line 138, inside the test of line 135: one append per item of the row
\* that is the converted column
appends_per_row(row, converted_column_name) ==
    Len(SelectSeq(row, LAMBDA p : p[1] = converted_column_name))

\* lines 130-138
data_converted_of(data, converted_column_name) ==
    Flatten([i \in 1..Len(data) |->
        [c \in 1..appends_per_row(data[i], converted_column_name) |->
            converted_values(data[i], converted_column_name)]])

\* one row of common.update_column_values_generator: the values of row_new
\* replace those of row_old under the same name, a new name is added
update_column_values(row_old, row_new) ==
    [j \in 1..Len(row_old) |->
        IF Has(row_new, row_old[j][1])
        THEN <<row_old[j][1], ValueOf(row_new, row_old[j][1])>>
        ELSE row_old[j]]
    \o SelectSeq(row_new, LAMBDA p : ~Has(row_old, p[1]))

\* common.update_column_values_generator(data_old, data_new): the rows of
\* the two tables pairwise, in order
update_column_values_generator(data_old, data_new) ==
    [i \in 1..(IF Len(data_old) < Len(data_new) THEN Len(data_old)
               ELSE Len(data_new)) |->
        update_column_values(data_old[i], data_new[i])]

\* restore_data_after_data_time_conversion, lines 112-145
restore_data_after_data_time_conversion(data, data_backup, converted_column_name) ==
    update_column_values_generator(data_backup,
        data_converted_of(data, converted_column_name))

ConversionSupported_Any(value_type) == TRUE

\* line 181
ConversionSupported(value_type) == value_type = "time"

restore_baseline_Accumulated(data_backup, data_converted) ==
    IF data_converted = <<>> THEN data_backup ELSE data_converted

\* line 196: the table each restore starts from is the backup made at
\* line 175, whatever the earlier iterations returned
restore_baseline(data_backup, data_converted) == data_backup

\* the loop of convert_data_column_values, lines 177-198, from the i-th
\* entry of values_to_convert on; calls lists the calls made so far
RECURSIVE convert_from(_, _, _, _, _)
convert_from(data, data_backup, values_to_convert, i, acc) ==
    IF i > Len(values_to_convert) THEN acc
    ELSE LET info == values_to_convert[i]
             all  == convert_data_time_values(data, info.column,
                                              info.value_time_columns)
         IN IF ConversionSupported(info.value_type)
            THEN convert_from(data, data_backup, values_to_convert, i + 1,
                    [raised |-> FALSE,
                     data_converted |->
                        restore_data_after_data_time_conversion(
                            all,
                            restore_baseline(data_backup, acc.data_converted),
                            info.column),
                     calls |-> acc.calls \o <<<<"parse_time", info.column>>,
                                              <<"restore", info.column>>>>])
            ELSE [acc EXCEPT !.raised = TRUE]

\* convert_data_column_values, lines 148-200
convert_data_column_values(data, values_to_convert) ==
    convert_from(data, make_data_set_backup(data), values_to_convert, 1,
                 [raised |-> FALSE, data_converted |-> <<>>, calls |-> <<>>])

make_export_data_set_InListOrder(data, columns_to_export) ==
    [i \in 1..Len(data) |->
        Flatten([j \in 1..Len(columns_to_export) |->
            SelectSeq(data[i], LAMBDA p : p[1] = columns_to_export[j])])]

\* make_export_data_set, lines 86-109
make_export_data_set(data, columns_to_export) ==
    [i \in 1..Len(data) |->
        SelectSeq(data[i], LAMBDA p : p[1] \in Range(columns_to_export))]

NoCsv == [header |-> <<>>, lines |-> <<>>]
NoCsvFiles == [main |-> NoCsv, mismatches |-> NoCsv]

\* cr.export_to_csv of named rows, lines 323-328: the names of the first
\* row as header, then the values of each row
export_rows_to_csv(old, data, export_header) ==
    [header |-> IF lib_appends /\ old.header # <<>> THEN old.header
                ELSE IF export_header /\ data # <<>> THEN Names(data[1])
                ELSE <<>>,
     lines |-> (IF lib_appends THEN old.lines ELSE <<>>) \o SeqMap(Values, data)]

export_raw_to_csv_Projected(old, data) ==
    [header |-> old.header,
     lines |-> (IF lib_appends THEN old.lines ELSE <<>>)
               \o SeqMap(LAMBDA row : SubSeq(row, 1, 1), data)]

\* cr.export_to_csv of the mismatched rows, line 331: the fields as read
export_raw_to_csv(old, data) ==
    [header |-> old.header,
     lines |-> (IF lib_appends THEN old.lines ELSE <<>>) \o data]

ArrAt(stage) == arr.stage = stage
ArrArray == ArrayOrder[arr.j]
ArrInfo == arr.info[ArrArray]

\* the loop of line 235 moves to the next array or the function returns
ArrLoop(a) ==
    [a EXCEPT !.j = @ + 1,
              !.stage = IF a.j + 1 > Len(ArrayOrder) THEN "returned" ELSE "loop",
              !.named = <<>>, !.mismatches = <<>>, !.before = <<>>,
              !.table = <<>>]

\* lines 239-244: an array without rows is skipped
ArrContinue ==
    /\ ArrAt("loop") /\ arr.data[ArrArray] = <<>>
    /\ arr' = ArrLoop(arr)
    /\ UNCHANGED <<tool, active, runs, appends, lib_appends, ftpvars, fmtvars, cdt>>

\* lines 292-296
ArrUpdateColumnNames ==
    /\ ArrAt("loop") /\ arr.data[ArrArray] # <<>>
    /\ LET r == cr_update_column_names(arr.data[ArrArray], ArrInfo.column_names)
       IN arr' = [arr EXCEPT !.stage = "named", !.named = r.named,
                             !.mismatches = r.mismatches,
                             !.before = arr.data[ArrArray], !.table = r.named]
    /\ UNCHANGED <<tool, active, runs, appends, lib_appends, ftpvars, fmtvars, cdt>>

\* lines 303-310
ArrConvert ==
    /\ ArrAt("named")
    /\ LET r == convert_data_column_values(arr.table,
                                           ArrInfo.convert_data_column_values)
       IN IF ArrInfo.convert_data_column_values = <<>>
          THEN arr' = [arr EXCEPT !.stage = "converted", !.before = arr.table,
                                  !.calls = <<>>]
          ELSE arr' = [arr EXCEPT !.stage = IF r.raised THEN "raised"
                                            ELSE "converted",
                                  !.before = arr.table,
                                  !.table = IF r.raised THEN arr.table
                                            ELSE r.data_converted,
                                  !.calls = r.calls]
    /\ UNCHANGED <<tool, active, runs, appends, lib_appends, ftpvars, fmtvars, cdt>>

\* lines 312-318
ArrParseTime ==
    /\ ArrAt("converted")
    /\ arr' = [arr EXCEPT !.stage = "timed", !.before = arr.table,
                          !.table = cr_parse_time(arr.table,
                              time_parsed_column_name, ArrInfo.time_columns, None)]
    /\ UNCHANGED <<tool, active, runs, appends, lib_appends, ftpvars, fmtvars, cdt>>

\* lines 320-321
ArrMakeExportDataSet ==
    /\ ArrAt("timed")
    /\ arr' = [arr EXCEPT !.stage = "projected", !.before = arr.table,
                          !.table = make_export_data_set(arr.table,
                                        ArrInfo.export_columns)]
    /\ UNCHANGED <<tool, active, runs, appends, lib_appends, ftpvars, fmtvars, cdt>>

\* lines 323-331
ArrExportToCsv ==
    /\ ArrAt("projected")
    /\ LET old == arr.out[ArrArray]
           written == [main |-> export_rows_to_csv(old.main, arr.table, TRUE),
                       mismatches |->
                           IF arr.mismatches # <<>>
                           THEN export_raw_to_csv(old.mismatches, arr.mismatches)
                           ELSE old.mismatches]
       IN arr' = ArrLoop([arr EXCEPT !.out[ArrArray] = written])
    /\ UNCHANGED <<tool, active, runs, appends, lib_appends, ftpvars, fmtvars, cdt>>

\* one call of process_array_ids with any chunk of rows and any settings
ArrInit ==
    /\ tool = "fmt"
    /\ lib_appends \in BOOLEAN
    /\ active = TRUE
    /\ runs = 0
    /\ appends = 0
    /\ FtpInit
    /\ FmtInit
    /\ cdt = NoCd
    /\ \E rows \in SeqsUpTo(RawRows, MaxRows), info \in ArrayIdsInfos :
        arr = [NoArr EXCEPT !.info = info, !.data = split_by_array_id(rows),
                            !.j = 1, !.stage = "loop",
                            !.out = [a \in Arrays |-> NoCsvFiles]]

ArrNext ==
    \/ ArrContinue
    \/ ArrUpdateColumnNames
    \/ ArrConvert
    \/ ArrParseTime
    \/ ArrMakeExportDataSet
    \/ ArrExportToCsv

SpecArrays == ArrInit /\ [][ArrNext]_vars

(* ----------------------------- specification ---------------------------- *)
Init ==
    /\ tool \in {"ftp", "fmt"}
    /\ lib_appends \in BOOLEAN
    /\ active = TRUE
    /\ runs = 0
    /\ appends = 0
    /\ FtpInit
    /\ FmtInit
    /\ arr = NoArr
    /\ cdt = NoCd

Next ==
    \/ FtpUsageError
    \/ FtpInactive
    \/ FtpStart
    \/ FtpKeyError
    \/ FtpCdTree
    \/ FtpPwd
    \/ FtpTransferRows
    \/ FtpFinish
    \/ FtpSrcAppend
    \/ FmtUsage
    \/ FmtInactive
    \/ FmtStart
    \/ FmtKeyError
    \/ FmtProcessLocation
    \/ FmtFinish
    \/ FmtSrcAppend

Spec == Init /\ [][Next]_vars

\* the same programs on configuration files in which one file entry of
\* the remote-sync tool and one location entry of the formatter have no
\* line_num key
InitNoLineNum ==
    /\ tool \in {"ftp", "fmt"}
    /\ lib_appends \in BOOLEAN
    /\ active = TRUE
    /\ runs = 0
    /\ appends = 0
    /\ FtpInitAt([k \in FtpKeys |->
                    IF k = <<"s2", "l2", "f3">> THEN NoLineNum ELSE 0])
    /\ FmtInitAt([k \in FmtKeys |->
                    IF k = <<"s2", "l2">> THEN NoLineNum ELSE 0])
    /\ arr = NoArr
    /\ cdt = NoCd

SpecNoLineNum == InitNoLineNum /\ [][Next]_vars

(* ================================ claims ================================ *)
\* the remote copy of a configured file: root/site/location/file/file_name
RemotePath(k) == <<k[1], k[2], k[3], file_name(k[3])>>

\* the source rows present in the remote copy of k
RemoteRows(k) ==
    IF RemotePath(k) \in DOMAIN rfiles
    THEN Range(rfiles[RemotePath(k)]) \ {Header}
    ELSE {}

FtpRunning == uphase \in {"run", "raised"}
FtpEnded(how) == uphase = "done" /\ uexit = how

\* C1: a remote-sync run calls save_config only when the whole traversal
\* returned without raising; while the traversal runs, and after a run that
\* raised, nothing was saved and every persisted line_num is the value it had
\* before the run.
C1_SaveOnlyOnCleanRun ==
    /\ FtpRunning => usaved = 0 /\ udisk = usnap
    /\ FtpEnded("exception") => usaved = 0 /\ udisk = usnap
    /\ FtpEnded("ok") => usaved = 1 /\ udisk = ucfg

\* a run that raised after a file was transferred and advanced in memory
C1_Witness ==
    /\ FtpEnded("exception")
    /\ \E k \in FtpKeys : ucfg[k] > udisk[k] /\ RemoteRows(k) # {}

\* C2: over any sequence of remote-sync runs the persisted checkpoint of a
\* file never passes a source row that is not in the file's remote copy:
\* every row up to the persisted line_num has been stored or appended, so
\* the checkpoint (which starts at 0) is at most the number of rows delivered.
C2_CheckpointCoversDeliveredRows ==
    \A k \in FtpKeys :
        /\ \A i \in 1..udisk[k] : i \in RemoteRows(k)
        /\ udisk[k] <= Cardinality(RemoteRows(k))

\* a persisted checkpoint has advanced and a later run failed
C2_Witness ==
    /\ FtpEnded("exception")
    /\ \E k \in FtpKeys : udisk[k] > 0

\* C3: a transfer_rows call that finds new rows probes the listing first and
\* then issues one transfer: STOR of a staging file written with a header
\* when the target name is absent from the working directory, APPE of a
\* staging file written without header when it is present.
C3_CreateOrAppend ==
    /\ Len(ulog.cmds) <= 2 /\ Len(ulog.exports) <= 1
    /\ Len(ulog.cmds) >= 1 => ulog.cmds[1] = "NLST"
    /\ Len(ulog.cmds) = 2 =>
          /\ ulog.cmds[2] = (IF ulog.present THEN "APPE" ELSE "STOR")
          /\ ulog.exports = <<~ulog.present>>
    /\ (ulog.ok /\ ulog.n > 0) => Len(ulog.cmds) = 2

\* a completed transfer that appended to a file already on the server
C3_Witness == ulog.ok /\ ulog.n > 0 /\ ulog.present /\ ulog.cmds = <<"NLST", "APPE">>

\* a transfer_rows call has just returned or raised for key k
FtpTransferred(k) == ulog' # ulog /\ ulog'.key = k

\* C5: a transfer_rows call that returns after finding n > 0 rows for a file
\* sets that file's in-memory line_num to its old value plus n and changes
\* the line_num of no other key.
C5_AdvancesOnlyItsKey ==
    [][\A k \in FtpKeys :
          (FtpTransferred(k) /\ ulog'.ok /\ usrc[k] > ucfg[k]) =>
              /\ ulog'.n = usrc[k] - ucfg[k]
              /\ ucfg' = [ucfg EXCEPT ![k] = ucfg[k] + (usrc[k] - ucfg[k])]]_vars

\* a transfer advanced one key while another key holds an advanced checkpoint
C5_Witness ==
    /\ ulog.ok /\ ulog.n > 0
    /\ ucfg[ulog.key] = ulog.old + ulog.n
    /\ \E k \in FtpKeys : k # ulog.key /\ ucfg[k] > 0

\* C6: no step of either tool lowers a persisted line_num, and a checkpoint
\* in memory is never below the persisted one it was loaded from.
C6_PersistedMonotonic ==
    [][/\ \A k \in FtpKeys : udisk'[k] >= udisk[k] /\ ucfg'[k] >= udisk'[k]
       /\ \A k \in FmtKeys : fdisk'[k] >= fdisk[k] /\ fcfg'[k] >= fdisk'[k]]_vars

\* a second successful run has persisted a further advance
C6_Witness ==
    /\ FtpEnded("ok") /\ runs = 2
    /\ \E k \in FtpKeys : udisk[k] > usnap[k] /\ usnap[k] > 0

\* a process_location call has just returned or raised for key k
FmtProcessed(k) == flog' # flog /\ flog'.key = k

\* C7: when no line follows the checkpoint, transfer_rows issues no listing,
\* writes no staging file and sends nothing, process_location does not call
\* process_array_ids and touches no output file, and neither changes a
\* checkpoint.
C7_NoOpOnEmptyDelta ==
    [][/\ \A k \in FtpKeys :
             (FtpTransferred(k) /\ usrc[k] <= ucfg[k]) =>
                 /\ ulog'.cmds = <<>> /\ ulog'.exports = <<>>
                 /\ UNCHANGED <<ucfg, udisk, ustage, rfiles, rdirs>>
       /\ \A k \in FmtKeys :
             (FmtProcessed(k) /\ Len(fsrc[k]) <= fcfg[k]) =>
                 /\ ~flog'.called
                 /\ UNCHANGED <<fcfg, fdisk, fout>>]_vars

\* transfer_rows returned for a file whose rows were all sent before
C7_Witness == ulog.ok /\ ulog.n = 0 /\ ulog.key # <<>> /\ ulog.old > 0

FmtRunning == fphase \in {"run", "raised"}
FmtRunOver == fphase = "raised" \/ (fphase = "run" /\ fip > Len(FmtProgram))

\* the last process_location call read n > 0 new rows
FmtReadRows == flog.key # <<>> /\ flog.readOk /\ flog.n > 0

\* C4: after process_location has read n > 0 new rows in tracking mode, the
\* location's checkpoint is its old line_num plus n.
C4_TrackedAdvanceByRowsRead ==
    (FmtReadRows /\ flog.track) => fcfg[flog.key] = flog.old + flog.n

\* C8: in the formatter an untracked invocation changes no line_num and
\* never calls save_config, and a line_num changes in memory only in a
\* tracked invocation, for the location whose process_location call has
\* just returned without raising.
C8_AdvanceOnlyWhenTracking ==
    [][FmtRunning =>
          /\ ~fargs.track => UNCHANGED <<fcfg, fdisk, fsaved>>
          /\ fcfg' # fcfg =>
                /\ fargs.track
                /\ flog' # flog /\ flog'.readOk /\ ~flog'.raised
                /\ \A k \in FmtKeys : k # flog'.key => fcfg'[k] = fcfg[k]]_vars

\* an untracked invocation has ended normally without saving
C8_Witness ==
    /\ fphase = "done" /\ fexit = "ok" /\ fsaved = 0
    /\ frec.valid /\ ~frec.args.track
    /\ \E k \in FmtKeys : frec.reads[k].read

\* the invocation before this one had the same arguments, was untracked as
\* this one is, and saw the same source files
FmtRepeated ==
    /\ FmtRunOver /\ ~fargs.track
    /\ frec.valid /\ frec.args = fargs

Count(s, x) == Cardinality({i \in 1..Len(s) : s[i] = x})

\* the array of the call has been given its column names
ArrNamed == arr.stage \in {"named", "converted", "timed", "projected", "raised"}

Unsupported(values_to_convert) ==
    \E i \in 1..Len(values_to_convert) : values_to_convert[i].value_type # "time"

\* C11: the rows of an array given to the column-name assignment are split
\* into named rows and mismatched rows: the two counts add up to the
\* number of rows given, every row given is found exactly as often in the
\* two results together, a row is mismatched exactly when its number of
\* fields differs from the number of column names, and rows that mismatch
\* do not make the call raise.
C11_RowsPartitioned ==
    ArrNamed =>
        LET input == arr.data[ArrArray]
            names == ArrInfo.column_names
        IN /\ Len(arr.named) + Len(arr.mismatches) = Len(input)
           /\ \A row \in RawRows :
                Count(input, row) = Count(arr.mismatches, row)
                                    + Count(SeqMap(Values, arr.named), row)
           /\ \A i \in 1..Len(arr.mismatches) : Len(arr.mismatches[i]) # Len(names)
           /\ \A i \in 1..Len(arr.named) : Names(arr.named[i]) = names
           /\ ArrAt("raised") => Unsupported(ArrInfo.convert_data_column_values)

C11_Witness ==
    ArrAt("named") /\ arr.named # <<>> /\ arr.mismatches # <<>>

\* the conversions configured for the array of the call
ArrConversions == ArrInfo.convert_data_column_values

\* the call has converted the named rows under a single time conversion
ConvertedByOne ==
    /\ ArrAt("converted")
    /\ Len(ArrConversions) = 1
    /\ ArrConversions[1].value_type = "time"

\* C12: after convert_data_column_values with one time conversion the
\* table has the rows of the table passed in, in the same order; each row
\* has the same column names in the same places; every column other than
\* the target holds the value it had; the target holds the time parsed
\* from that row's values of the conversion's time columns.
C12_OnlyTargetReplaced ==
    ConvertedByOne =>
        LET target == ArrConversions[1].column
            cols   == ArrConversions[1].value_time_columns
        IN /\ Len(arr.table) = Len(arr.before)
           /\ \A i \in 1..Len(arr.table) :
                /\ Names(arr.table[i]) = Names(arr.before[i])
                /\ \A j \in 1..Len(arr.table[i]) :
                    arr.table[i][j][2] =
                        IF arr.table[i][j][1] = target
                        THEN parse_time_value([c \in 1..Len(cols) |->
                                 ValueOf(arr.before[i], cols[c])])
                        ELSE arr.before[i][j][2]

C12_Witness ==
    /\ ConvertedByOne
    /\ Len(arr.table) = 2
    /\ arr.before[1] # arr.before[2]
    /\ arr.table[1] # arr.before[1]

\* the place of the column 'name' in a row that has it
PlaceOf(row, name) == CHOOSE j \in 1..Len(row) : row[j][1] = name

\* C13: make_export_data_set gives one row per row of its input, in order;
\* a row of the result holds exactly the items of the input row whose
\* name is in the export list, each once, in the order they have in the
\* input row; a listed column that the row lacks is simply absent.
C13_ExportProjection ==
    ArrAt("projected") =>
        LET listed == Range(ArrInfo.export_columns)
        IN /\ Len(arr.table) = Len(arr.before)
           /\ \A i \in 1..Len(arr.table) :
                LET row_in  == arr.before[i]
                    row_out == arr.table[i]
                IN /\ \A j \in 1..Len(row_out) :
                        row_out[j] \in Range(row_in) /\ row_out[j][1] \in listed
                   /\ \A j \in 1..Len(row_in) :
                        row_in[j][1] \in listed => row_in[j] \in Range(row_out)
                   /\ \A j, k \in 1..Len(row_out) :
                        j < k => PlaceOf(row_in, row_out[j][1])
                                 < PlaceOf(row_in, row_out[k][1])

C13_Witness ==
    /\ ArrAt("projected")
    /\ arr.table # <<>>
    /\ Len(arr.table[1]) = 2
    /\ Len(arr.before[1]) = 3
    /\ \E name \in Range(ArrInfo.export_columns) : ~Has(arr.before[1], name)

\* the first entry of values_to_convert whose value_type is not "time"
FirstUnsupported(values_to_convert) ==
    CHOOSE u \in 1..Len(values_to_convert) :
        /\ values_to_convert[u].value_type # "time"
        /\ \A i \in 1..(u - 1) : values_to_convert[i].value_type = "time"

\* C14: a conversion whose value_type is not "time" makes
\* convert_data_column_values raise at that entry, with no parse and no
\* merge made for it (only those of the entries before it); the raise ends
\* the array without touching the output files written for the arrays
\* before it and without changing a checkpoint, in memory or persisted.
C14_UnsupportedConversionAborts ==
    [][(ArrAt("named") /\ Unsupported(ArrConversions)) =>
        LET u == FirstUnsupported(ArrConversions)
        IN /\ arr'.stage = "raised"
           /\ Len(arr'.calls) = 2 * (u - 1)
           /\ \A c \in 1..Len(arr'.calls) :
                arr'.calls[c][2] \in {ArrConversions[i].column : i \in 1..(u - 1)}
           /\ arr'.out = arr.out
           /\ arr'.out[ArrArray] = NoCsvFiles
           /\ UNCHANGED <<fcfg, fdisk>>]_vars

C14_Witness ==
    /\ ArrAt("raised")
    /\ ArrArray = "a2"
    /\ arr.out["a1"].main.lines # <<>>

(* -------------------------- claims on cd_tree --------------------------- *)
\* C15: where the server permits MKD, a cd_tree call does not raise and
\* leaves the session in the requested path (taken from the directory the
\* session was in), with every directory down to it on the server; when
\* that path existed already no MKD is sent and the tree is as before; and
\* a call repeated with the same argument changes neither the tree nor the
\* working directory.
C15_CdTreeEnsuresPath ==
    (cdt.calls > 0 /\ cdt.canMkd) =>
        LET requested == Resolve(cdt.path, cdt.before.cwd)
        IN /\ ~cdt.raised
           /\ cdt.cwd = requested
           /\ \A n \in 0..Len(requested) : SubSeq(requested, 1, n) \in cdt.dirs
           /\ requested \in cdt.before.dirs =>
                cdt.mkds = 0 /\ cdt.dirs = cdt.before.dirs
           /\ cdt.repeated =>
                cdt.dirs = cdt.before.dirs /\ cdt.cwd = cdt.before.cwd

(* ------------------ claims on the two tools, continued ------------------ *)
FtpCalled == ulog.key # <<>>
Completed(stmt) == stmt \in Range(ulog.steps)

\* C16: the statements of a transfer_rows call complete in the order
\* listing, staging write, STOR or APPE, removal of the staging file,
\* assignment of the new line_num; a call that returns after its STOR or
\* APPE has removed the staging file; the line_num in memory differs from
\* the one the call read only when both the transfer and the removal have
\* completed, so a call that raised left it as it was.
C16_TransferStepsInOrder ==
    FtpCalled =>
        /\ ulog.steps = SubSeq(<<"nlst", "export", "storbinary", "remove",
                                 "line_num">>, 1, Len(ulog.steps))
        /\ (Completed("storbinary") /\ ulog.ok) => ustage[ulog.key] = <<>>
        /\ Completed("remove") => ustage[ulog.key] = <<>>
        /\ ucfg[ulog.key] # ulog.old =>
              /\ Completed("storbinary") /\ Completed("remove")
              /\ RemotePath(ulog.key) \in DOMAIN rfiles
        /\ ~ulog.ok => ucfg[ulog.key] = ulog.old

C16_Witness ==
    /\ FtpCalled /\ ulog.ok /\ ulog.n > 0
    /\ Completed("line_num")
    /\ ucfg[ulog.key] = ulog.old + ulog.n
    /\ ulog.old > 0

\* an invocation begins and loads its configuration file
Loads == runs' # runs /\ uexit' # "usage" /\ fexit' # "usage"

\* C17: an invocation that finds settings.active false does nothing: no
\* transfer_rows or process_location call and no read, no staging or
\* output file changed, nothing changed on the server, no checkpoint
\* changed in the file, the configuration in memory as loaded, save_config
\* not called, and the invocation is over without an exception.
C17_InactiveDoesNothing ==
    [][(Loads /\ ~active') =>
         /\ ulog' = NoLog /\ flog' = NoFmtLog /\ freads' = NoReads
         /\ UNCHANGED <<ustage, fout, rdirs, rfiles, udisk, fdisk, usrc, fsrc>>
         /\ ucfg' = udisk /\ fcfg' = fdisk
         /\ usaved' = 0 /\ fsaved' = 0
         /\ tool = "ftp" => uphase' = "done" /\ uexit' = "inactive"
         /\ tool = "fmt" => fphase' = "done" /\ fexit' = "inactive"]_vars

C17_Witness ==
    /\ ~active
    /\ FtpEnded("inactive")
    /\ \E k \in FtpKeys : usrc[k] > udisk[k]

\* C18: the remote-sync tool runs only with arguments in which --file
\* comes with --location and --location comes with --site; so in a run
\* with --file every transfer_rows call is for that file of the named
\* site and location.
C18_FileNeedsLocationAndSite ==
    FtpRunning =>
        /\ uargs.file # None => uargs.location # None
        /\ uargs.location # None => uargs.site # None
        /\ (uargs.file # None /\ FtpCalled) =>
              ulog.key = <<uargs.site, uargs.location, uargs.file>>

\* C19: an entry without line_num is read from the first line and does
\* not make the call fail: a transfer_rows call on such a file that has
\* sent its rows and removed the staging file returns with the line_num
\* set to the number of rows sent, and a process_location call on such a
\* location reads from line 0.
C19_MissingLineNumIsStart ==
    /\ (FtpCalled /\ ulog.old = NoLineNum /\ Completed("remove")) =>
          ulog.ok /\ ucfg[ulog.key] = ulog.n
    /\ (flog.key # <<>> /\ fsnap[flog.key] = NoLineNum) => flog.old = 0

\* C20: in a formatter run with --track, save_config is called once, when
\* the traversal has processed its last location, and writes the
\* configuration in memory; a process_location call changes at most the
\* entry of its own location and saves nothing; a run in which a
\* process_location call raised ends without a save_config call and with
\* the persisted checkpoints as they were when it began.
C20_TrackedRunSavesOnceAtEnd ==
    [][/\ fsaved' > fsaved =>
            /\ fphase = "run" /\ fip > Len(FmtProgram) /\ fargs.track
            /\ fsaved' = 1 /\ fdisk' = fcfg
       /\ (fphase = "run" /\ fphase' = "done" /\ fargs.track) => fsaved' = 1
       /\ (fphase = "raised" /\ fphase' = "done") =>
            fsaved' = 0 /\ fdisk' = fsnap
       /\ \A k \in FmtKeys :
            FmtProcessed(k) =>
                /\ \A other \in FmtKeys \ {k} : fcfg'[other] = fcfg[other]
                /\ UNCHANGED <<fdisk, fsaved>>]_vars

C20_Witness ==
    /\ fphase = "done" /\ fexit = "exception" /\ fsaved = 0
    /\ frec.valid /\ frec.args.track /\ frec.args.site = None
    /\ \A k \in FmtKeys : frec.reads[k].read
    /\ frec.reads[<<"s2", "l2">>].upto > frec.reads[<<"s2", "l2">>].from

(* --------------------- claims on the remote session --------------------- *)
\* the directory root/site/location/file of a configured file
RemoteDir(k) == Root \o <<k[1], k[2], k[3]>>

\* C21: in each branch of process_sites, when transfer_rows is called for
\* (site, location, file) the working directory of the session is
\* root/site/location/file; the call ran its listing and its STOR or APPE
\* there, and every file on the server is the copy of a configured file in
\* that file's own directory.
C21_TransferInOwnDirectory ==
    /\ FtpAt("xfer") => cwd = RemoteDir(FtpCurrent.arg)
    /\ FtpCalled => ulog.wd = RemoteDir(ulog.key)
    /\ \A p \in DOMAIN rfiles : \E k \in FtpKeys : p = RemotePath(k)

\* the second file of a location in the traversal of all sites, after the
\* first file was sent in the same run
C21_Witness ==
    /\ uphase = "run" /\ uargs.site = None
    /\ FtpCalled /\ ulog.key = <<"s1", "l1", "f2">> /\ ulog.ok
    /\ ulog.cmds = <<"NLST", "STOR">>
    /\ ucfg[<<"s1", "l1", "f1">>] > udisk[<<"s1", "l1", "f1">>]
    /\ RemotePath(<<"s1", "l1", "f1">>) \in DOMAIN rfiles
    /\ RemotePath(<<"s1", "l1", "f2">>) \in DOMAIN rfiles

(* ------------------- claims on process_array_ids, continued ------------- *)
\* the loop of process_array_ids has passed array a
ArrPassed(a) == \E i \in 1..Len(ArrayOrder) : ArrayOrder[i] = a /\ i < arr.j

\* the rows of array a whose length differs from that of its column names
MismatchedRows(a) ==
    SelectSeq(arr.data[a], LAMBDA row : Len(row) # Len(arr.info[a].column_names))

\* C22: the mismatched rows of an array go to its Mismatches file only, as
\* the split returned them: while the array is converted, time-parsed and
\* projected they stay as they were and are no rows of the table; once the
\* array is written its Mismatches file holds exactly them, field by
\* field, the file is written only when there is at least one, and the
\* main file has one line per row of matching length and no other.
C22_MismatchesApartAndRaw ==
    arr.stage # "idle" =>
        /\ arr.stage \in {"named", "converted", "timed", "projected"} =>
              /\ arr.mismatches = MismatchedRows(ArrArray)
              /\ Len(arr.table) + Len(arr.mismatches) = Len(arr.data[ArrArray])
        /\ \A a \in Arrays :
              IF ArrPassed(a) /\ arr.data[a] # <<>>
              THEN /\ arr.out[a].mismatches.lines = MismatchedRows(a)
                   /\ arr.out[a].mismatches.header = <<>>
                   /\ (arr.out[a].mismatches # NoCsv) <=> (MismatchedRows(a) # <<>>)
                   /\ Len(arr.out[a].main.lines)
                        = Len(arr.data[a]) - Len(MismatchedRows(a))
              ELSE arr.out[a] = NoCsvFiles

C22_Witness ==
    /\ arr.stage = "returned"
    /\ arr.info["a1"].convert_data_column_values # <<>>
    /\ Len(arr.out["a1"].mismatches.lines) = 1
    /\ Len(arr.out["a1"].main.lines) = 1
    /\ Len(arr.out["a1"].mismatches.lines[1]) = 4

\* C23: an invocation of the remote-sync tool that is over has closed the
\* session it opened at import: after a traversal that returned, after one
\* whose exception was caught and after the return on an inactive system,
\* session.quit has been called.
C23_SessionClosedWhenOver ==
    (tool = "ftp" /\ uphase = "done" /\ uexit \in {"ok", "exception", "inactive"})
        => sess = "quit"

\* C24: whatever runs came before, failed ones included, every file on the
\* server holds one header row and it is its first line.
C24_OneHeaderFirst ==
    \A p \in DOMAIN rfiles :
        rfiles[p] # <<>> =>
            /\ rfiles[p][1] = Header
            /\ Count(rfiles[p], Header) = 1

\* the call has converted the named rows under several time conversions
ConvertedBySeveral ==
    /\ ArrAt("converted")
    /\ Len(ArrConversions) > 1
    /\ \A i \in 1..Len(ArrConversions) : ArrConversions[i].value_type = "time"

====
